---- MODULE Spec2Model ----
(***************************************************************************)
(* Model of the Bitcoin address monitor: the class-based program           *)
(* (src/monitor.py, BitcoinAddressMonitor + main) and the procedural       *)
(* program (src/script.py, main and its helpers).  One run of the model is *)
(* one run of one of the two programs; `variant` says which.               *)
(*                                                                         *)
(* Balances.  get_balance returns (funded - spent) / 100_000_000.0, a      *)
(* float.  The model carries the satoshi difference n itself and stands    *)
(* for the float n / 1e8: for |n| < 2^53 the correctly rounded quotient is *)
(* strictly monotone in n, so the program's >, < and == on the floats      *)
(* agree with the same comparisons on n.                                   *)
(***************************************************************************)
EXTENDS Integers, Sequences, FiniteSets, TLC

(* ------------------------------ bounds -------------------------------- *)
\* longest configured "addresses" list
MaxAddrs == 2
\* largest funded_txo_sum the explorer reports (in satoshi)
MaxSat == 1

(* ----------------------------- vocabulary ----------------------------- *)
\* Python's None (an unobserved balance) and a present value
None == << >>
Some(x) == << x >>
Val(o) == o[1]

\* marks a descriptor that has no "title" key
NoTitle == "NoTitle"

Variants == {"monitor", "script"}

\* the address descriptors a configuration file may list
Items ==
  { [address |-> "A", title |-> "T"],
    [address |-> "B", title |-> NoTitle] }

Addresses == { it.address : it \in Items }

\* endpoint strings: Apprise.add registers "good", returns False for "invalid"
\* and raises for "unsupported"
UrlPool == {"good", "invalid", "unsupported"}

\* the "apprise_urls" lists a configuration file may hold: none, one that
\* registers, failing ones before, after and around registering ones
UrlLists ==
  { << >>, << "good" >>, << "unsupported" >>, << "invalid", "good" >>,
    << "good", "unsupported", "good" >> }

SeqsUpTo(S, n) == UNION { [1..k -> S] : k \in 0..n }

\* a configuration dict; a key the file leaves out reads as its .get default
ConfigDicts ==
  [ addresses : SeqsUpTo(Items, MaxAddrs),
    notify_errors : BOOLEAN,
    apprise_urls : UrlLists ]

\* the dict {} read through the .get defaults
EmptyDict == [addresses |-> << >>, notify_errors |-> FALSE, apprise_urls |-> << >>]

\* what open() and json.load() meet at the --config path: FileNotFoundError,
\* json.JSONDecodeError, or another OSError of open() (PermissionError)
LoadErrors == {"FileNotFoundError", "JSONDecodeError", "PermissionError"}

ConfigFiles ==
  { [kind |-> "dict", dict |-> c] : c \in ConfigDicts }
  \cup { [kind |-> e, dict |-> EmptyDict] : e \in LoadErrors }

\* the explorer's answers to one GET: a body with the two sums, or a failure
\* (requests.RequestException from get/raise_for_status, KeyError from the body)
FetchErrors == {"RequestException", "KeyError"}

\* the ledger never spends more than was funded
Responses ==
  { r \in [kind : {"ok"}, funded : 0..MaxSat, spent : 0..MaxSat] : r.spent <= r.funded }
  \cup [kind : FetchErrors, funded : {0}, spent : {0}]

\* notification titles
FundsReceived == "Bitcoin Funds Received!"
BalanceDecreased == "Bitcoin Balance Decreased!"
MonitorError == "Bitcoin Monitor Error"
TestNotification == "Bitcoin Monitor Test Notification"

(* ------------------------------- state -------------------------------- *)
VARIABLES
  variant,        \* which program runs
  args,           \* parsed command line: [test_notifications]
  cfgfile,        \* the file at the --config path
  config,         \* the loaded configuration: [kind: "unset" | "None" | "dict", dict]
  apobj,          \* the urls registered in the Apprise object
  last_balances,  \* address -> None | Some(balance)
  pc,             \* position of main()
  idx,            \* position of the for loop of monitor_addresses (1-based)
  last,           \* what the most recent monitor_address call did
  roundLog,       \* descriptors processed in the current round, in order
  testCalls,      \* results of the notify calls of send_test_notification
  prevOk,         \* history: address -> value of its last successful fetch
  gap             \* history: addresses with a failed fetch since their last success

vars == << variant, args, cfgfile, config, apobj, last_balances, pc, idx, last,
           roundLog, testCalls, prevOk, gap >>

\* the configuration as the program reads it
addresses_config == config.dict.addresses
notify_errors == config.dict.notify_errors
apprise_urls == config.dict.apprise_urls

(* --------------------------- pure functions --------------------------- *)
\* _load_config / load_config: the dict, None for the two handled errors, and
\* any other exception of open() propagates
load_config(file) ==
  IF file.kind = "dict" THEN [raised |-> FALSE, kind |-> "dict", dict |-> file.dict]
  ELSE IF file.kind \in {"FileNotFoundError", "JSONDecodeError"}
       THEN [raised |-> FALSE, kind |-> "None", dict |-> EmptyDict]
       ELSE [raised |-> TRUE, kind |-> "unset", dict |-> EmptyDict]

\* apobj.add(url) inside try/except: the url is registered or it is skipped
AddRegisters(url) == url = "good"

\* mutant: the first url that fails to register ends the loop
RECURSIVE setup_apprise_stops(_)
setup_apprise_stops(urls) ==
  IF urls = << >> THEN << >>
  ELSE IF AddRegisters(Head(urls))
       THEN << Head(urls) >> \o setup_apprise_stops(Tail(urls))
       ELSE << >>

RECURSIVE setup_apprise(_)
setup_apprise(urls) ==
  IF urls = << >> THEN << >>
  ELSE IF AddRegisters(Head(urls))
       THEN << Head(urls) >> \o setup_apprise(Tail(urls))
       ELSE setup_apprise(Tail(urls))

\* {item["address"]: None for item in addresses_config}
initialize_balances(items) ==
  [ a \in { items[i].address : i \in DOMAIN items } |-> None ]

\* not addresses_config -> False
validate_config(items) == items # << >>

\* item.get("title", address)
Title(item) == IF item.title = NoTitle THEN item.address ELSE item.title

\* get_balance: the satoshi difference (standing for the float / 1e8), or the
\* exception of the request or of the missing keys
get_balance(r) ==
  IF r.kind = "ok" THEN [raised |-> FALSE, value |-> r.funded - r.spent]
  ELSE [raised |-> TRUE, value |-> 0]

\* mutant: no baseline branch, an unobserved balance compares as 0
ClassifyNoBaseline(old, balance) ==
  LET o == IF old = None THEN 0 ELSE Val(old)
  IN IF balance > o THEN "increase"
     ELSE IF balance < o THEN "decrease"
     ELSE "unchanged"

\* mutant: >= where the code has >
ClassifyNonStrict(old, balance) ==
  IF old = None THEN "baseline"
  ELSE IF balance >= Val(old) THEN "increase"
  ELSE IF balance < Val(old) THEN "decrease"
  ELSE "unchanged"

\* the branch of the if / elif chain a fetched balance takes
Classify(old, balance) ==
  IF old = None THEN "baseline"
  ELSE IF balance > Val(old) THEN "increase"
  ELSE IF balance < Val(old) THEN "decrease"
  ELSE "unchanged"

\* mutant: a notify call that returns False raises
DispatchRaises(v, urls, title, item, d) ==
  LET note == [title |-> title, address |-> item.address, label |-> Title(item),
               link |-> (v = "monitor")]
  IN [ sent |-> << note >>,
       calls |-> IF urls # << >> THEN << [note |-> note, result |-> d] >> ELSE << >>,
       raised |-> (urls # << >> /\ ~ d) ]

\* mutant: notify is called without asking apobj.urls()
DispatchUnguarded(v, urls, title, item, d) ==
  LET note == [title |-> title, address |-> item.address, label |-> Title(item),
               link |-> (v = "monitor")]
  IN [ sent |-> << note >>,
       calls |-> << [note |-> note, result |-> (d /\ urls # << >>)] >>,
       raised |-> FALSE ]

\* one send: monitor.py's _send_notification (which appends the explorer link),
\* script.py's inline `if apobj.urls(): apobj.notify(...)`.  The message is
\* handed to Apprise only when a url is registered; notify's boolean result d is
\* logged at most, never raised.
Dispatch(v, urls, title, item, d) ==
  LET note == [title |-> title, address |-> item.address, label |-> Title(item),
               link |-> (v = "monitor")]
  IN [ sent |-> << note >>,
       calls |-> IF urls # << >> THEN << [note |-> note, result |-> d] >> ELSE << >>,
       raised |-> FALSE ]

\* mutant: both programs ask notify_errors before the error notification
ErrorNotifiedBySetting(v, ne) == ne

\* whether the except branch sends: monitor.py asks notify_errors, script.py
\* has no such setting
ErrorNotified(v, ne) == IF v = "monitor" THEN ne ELSE TRUE

\* mutant: the except branch records a failed fetch as a balance of zero
HandlerStoresZero(v, item, lb, urls, ne, d, sent, calls) ==
  [ lb |-> IF lb[item.address] = None THEN lb ELSE [lb EXCEPT ![item.address] = Some(0)],
    sent |-> sent \o (IF ErrorNotified(v, ne)
                      THEN Dispatch(v, urls, MonitorError, item, d).sent ELSE << >>),
    calls |-> calls \o (IF ErrorNotified(v, ne)
                        THEN Dispatch(v, urls, MonitorError, item, d).calls ELSE << >>),
    raised |-> FALSE ]

\* mutant: the except branch forgets the balance of the address
HandlerResets(v, item, lb, urls, ne, d, sent, calls) ==
  [ lb |-> [lb EXCEPT ![item.address] = None],
    sent |-> sent \o (IF ErrorNotified(v, ne)
                      THEN Dispatch(v, urls, MonitorError, item, d).sent ELSE << >>),
    calls |-> calls \o (IF ErrorNotified(v, ne)
                        THEN Dispatch(v, urls, MonitorError, item, d).calls ELSE << >>),
    raised |-> FALSE ]

\* mutant: the except branch rebuilds the whole balance map
HandlerClearsAll(v, item, lb, urls, ne, d, sent, calls) ==
  [ lb |-> [a \in DOMAIN lb |-> None],
    sent |-> sent \o (IF ErrorNotified(v, ne)
                      THEN Dispatch(v, urls, MonitorError, item, d).sent ELSE << >>),
    calls |-> calls \o (IF ErrorNotified(v, ne)
                        THEN Dispatch(v, urls, MonitorError, item, d).calls ELSE << >>),
    raised |-> FALSE ]

\* mutant: the except branch logs, notifies and re-raises
HandlerReraises(v, item, lb, urls, ne, d, sent, calls) ==
  [ lb |-> lb,
    sent |-> sent \o (IF ErrorNotified(v, ne)
                      THEN Dispatch(v, urls, MonitorError, item, d).sent ELSE << >>),
    calls |-> calls \o (IF ErrorNotified(v, ne)
                        THEN Dispatch(v, urls, MonitorError, item, d).calls ELSE << >>),
    raised |-> TRUE ]

\* the except branch of monitor_address, entered with what the try block had
\* already sent
Handler(v, item, lb, urls, ne, d, sent, calls) ==
  IF ErrorNotified(v, ne)
  THEN LET s == Dispatch(v, urls, MonitorError, item, d)
       IN [lb |-> lb, sent |-> sent \o s.sent, calls |-> calls \o s.calls,
           raised |-> s.raised]
  ELSE [lb |-> lb, sent |-> sent, calls |-> calls, raised |-> FALSE]

\* mutant: the fetched balance is written to every slot of the map
StoreBalanceAll(lb, address, balance) == [a \in DOMAIN lb |-> Some(balance)]

\* mutant: the balance is stored only while the address is unobserved
StoreBalanceOnce(lb, address, balance) ==
  IF lb[address] = None THEN [lb EXCEPT ![address] = Some(balance)] ELSE lb

\* the balance map after `last_balances[address] = balance`
StoreBalance(lb, address, balance) == [lb EXCEPT ![address] = Some(balance)]

\* mutant: the balance is stored only when the notification was delivered, so
\* that an undelivered change is detected again
monitor_address_resends(v, item, lb, urls, ne, r, d) ==
  LET address == item.address
      b == get_balance(r)
  IN IF b.raised THEN Handler(v, item, lb, urls, ne, d, << >>, << >>)
     ELSE LET c == Classify(lb[address], b.value)
          IN IF c \in {"increase", "decrease"}
             THEN LET title == IF c = "increase" THEN FundsReceived ELSE BalanceDecreased
                      s == Dispatch(v, urls, title, item, d)
                      failed == \E k \in DOMAIN s.calls : ~ s.calls[k].result
                  IN [lb |-> IF failed THEN lb ELSE StoreBalance(lb, address, b.value),
                      sent |-> s.sent, calls |-> s.calls, raised |-> FALSE]
             ELSE [lb |-> StoreBalance(lb, address, b.value), sent |-> << >>,
                   calls |-> << >>, raised |-> FALSE]

\* monitor_address(item): the try block and its except branch.  Result: the new
\* balance map, the sends made, the notify calls made, and whether an exception
\* leaves the function.
monitor_address(v, item, lb, urls, ne, r, d) ==
  LET address == item.address
      b == get_balance(r)
  IN IF b.raised THEN Handler(v, item, lb, urls, ne, d, << >>, << >>)
     ELSE LET c == Classify(lb[address], b.value)
          IN IF c \in {"increase", "decrease"}
             THEN LET title == IF c = "increase" THEN FundsReceived ELSE BalanceDecreased
                      s == Dispatch(v, urls, title, item, d)
                  IN IF s.raised
                     THEN Handler(v, item, lb, urls, ne, d, s.sent, s.calls)
                     ELSE [lb |-> StoreBalance(lb, address, b.value), sent |-> s.sent,
                           calls |-> s.calls, raised |-> FALSE]
             ELSE [lb |-> StoreBalance(lb, address, b.value), sent |-> << >>,
                   calls |-> << >>, raised |-> FALSE]

(* ------------------------------- actions ------------------------------ *)
\* `last` before any monitor_address call
NoCall ==
  [ called |-> FALSE, i |-> 0, address |-> "", kind |-> "", balance |-> 0,
    before |-> None, prev |-> None, gapBefore |-> FALSE,
    sent |-> << >>, calls |-> << >>, raised |-> FALSE ]

Init ==
  /\ variant \in Variants
  /\ args \in [test_notifications : BOOLEAN]
  /\ cfgfile \in ConfigFiles
  /\ config = [kind |-> "unset", dict |-> EmptyDict]
  /\ apobj = << >>
  /\ last_balances = << >>
  /\ pc = "start"
  /\ idx = 0
  /\ last = NoCall
  /\ roundLog = << >>
  /\ testCalls = << >>
  /\ prevOk = [a \in Addresses |-> None]
  /\ gap = {}

\* main: monitor.py builds BitcoinAddressMonitor, whose __init__ raises ValueError
\* on None and main returns; script.py returns on None.  An exception that
\* _load_config does not catch leaves main.
LoadConfig ==
  /\ pc = "start"
  /\ LET c == load_config(cfgfile)
     IN /\ config' = [kind |-> c.kind, dict |-> c.dict]
        /\ pc' = IF c.raised THEN "crashed"
                 ELSE IF c.kind = "None" THEN "exited"
                 ELSE "setup"
  /\ UNCHANGED << variant, args, cfgfile, apobj, last_balances, idx, last, roundLog,
                  testCalls, prevOk, gap >>

\* _setup_apprise / setup_apprise
SetupApprise ==
  /\ pc = "setup"
  /\ apobj' = setup_apprise(apprise_urls)
  /\ pc' = IF variant = "monitor" THEN "init" ELSE "main"
  /\ UNCHANGED << variant, args, cfgfile, config, last_balances, idx, last, roundLog,
                  testCalls, prevOk, gap >>

\* _initialize_balances in __init__ (monitor.py); initialize_balances after the
\* validation, right before the loop (script.py)
InitializeBalances ==
  /\ pc = "init"
  /\ last_balances' = initialize_balances(addresses_config)
  /\ pc' = IF variant = "monitor" THEN "main" ELSE "loop"
  /\ idx' = IF variant = "monitor" THEN idx ELSE 1
  /\ UNCHANGED << variant, args, cfgfile, config, apobj, last, roundLog, testCalls,
                  prevOk, gap >>

\* mutant: the address list is validated before the test message is sent
SendTestAfterValidate ==
  /\ pc = "main"
  /\ args.test_notifications
  /\ \E d \in BOOLEAN :
       testCalls' = IF apobj # << >> /\ validate_config(addresses_config)
                    THEN << d >> ELSE << >>
  /\ pc' = "exited"
  /\ UNCHANGED << variant, args, cfgfile, config, apobj, last_balances, idx, last,
                  roundLog, prevOk, gap >>

\* send_test_notification, then main returns
SendTestNotification ==
  /\ pc = "main"
  /\ args.test_notifications
  /\ \E d \in BOOLEAN :
       testCalls' = IF apobj # << >> THEN << d >> ELSE << >>
  /\ pc' = "exited"
  /\ UNCHANGED << variant, args, cfgfile, config, apobj, last_balances, idx, last,
                  roundLog, prevOk, gap >>

\* validate_config: run() / main return when no address is configured
ValidateConfig ==
  /\ pc = "main"
  /\ ~ args.test_notifications
  /\ IF validate_config(addresses_config)
     THEN /\ pc' = IF variant = "monitor" THEN "loop" ELSE "init"
          /\ idx' = IF variant = "monitor" THEN 1 ELSE idx
     ELSE /\ pc' = "exited"
          /\ idx' = idx
  /\ UNCHANGED << variant, args, cfgfile, config, apobj, last_balances, last, roundLog,
                  testCalls, prevOk, gap >>

\* mutant: of the descriptors that name one address, only the last records the
\* balance it fetched
MonitorAddressLastRecords ==
  /\ pc = "loop"
  /\ idx \in DOMAIN addresses_config
  /\ \E r \in Responses, d \in BOOLEAN :
       LET item == addresses_config[idx]
           a == item.address
           res == monitor_address(variant, item, last_balances, apobj, notify_errors, r, d)
           ok == r.kind = "ok"
           later == \E k \in DOMAIN addresses_config :
                       k > idx /\ addresses_config[k].address = a
       IN /\ last_balances' = IF later THEN last_balances ELSE res.lb
          /\ last' = [ called |-> TRUE, i |-> idx, address |-> a,
                       kind |-> r.kind, balance |-> get_balance(r).value,
                       before |-> last_balances[a], prev |-> prevOk[a],
                       gapBefore |-> (a \in gap),
                       sent |-> res.sent, calls |-> res.calls, raised |-> res.raised ]
          /\ roundLog' = Append(roundLog, [i |-> idx, ok |-> ok])
          /\ prevOk' = IF ok THEN [prevOk EXCEPT ![a] = Some(get_balance(r).value)] ELSE prevOk
          /\ gap' = IF ok THEN gap \ {a} ELSE gap \cup {a}
          /\ pc' = IF res.raised THEN "crashed"
                   ELSE IF idx = Len(addresses_config) THEN "sleep" ELSE "loop"
          /\ idx' = idx + 1
  /\ UNCHANGED << variant, args, cfgfile, config, apobj, testCalls >>

\* mutant: a failed fetch is tried again before the loop moves on
MonitorAddressRetries ==
  /\ pc = "loop"
  /\ idx \in DOMAIN addresses_config
  /\ \E r \in Responses, d \in BOOLEAN :
       LET item == addresses_config[idx]
           a == item.address
           res == monitor_address(variant, item, last_balances, apobj, notify_errors, r, d)
           ok == r.kind = "ok"
       IN /\ last_balances' = res.lb
          /\ last' = [ called |-> TRUE, i |-> idx, address |-> a,
                       kind |-> r.kind, balance |-> get_balance(r).value,
                       before |-> last_balances[a], prev |-> prevOk[a],
                       gapBefore |-> (a \in gap),
                       sent |-> res.sent, calls |-> res.calls, raised |-> res.raised ]
          /\ roundLog' = Append(roundLog, [i |-> idx, ok |-> ok])
          /\ prevOk' = IF ok THEN [prevOk EXCEPT ![a] = Some(get_balance(r).value)] ELSE prevOk
          /\ gap' = IF ok THEN gap \ {a} ELSE gap \cup {a}
          /\ pc' = IF res.raised THEN "crashed"
                   ELSE IF idx = Len(addresses_config) /\ ok THEN "sleep" ELSE "loop"
          /\ idx' = IF ok THEN idx + 1 ELSE idx
  /\ UNCHANGED << variant, args, cfgfile, config, apobj, testCalls >>

\* one iteration of the for loop of monitor_addresses: monitor_address(item)
MonitorAddress ==
  /\ pc = "loop"
  /\ idx \in DOMAIN addresses_config
  /\ \E r \in Responses, d \in BOOLEAN :
       LET item == addresses_config[idx]
           a == item.address
           res == monitor_address(variant, item, last_balances, apobj, notify_errors, r, d)
           ok == r.kind = "ok"
       IN /\ last_balances' = res.lb
          /\ last' = [ called |-> TRUE, i |-> idx, address |-> a,
                       kind |-> r.kind, balance |-> get_balance(r).value,
                       before |-> last_balances[a], prev |-> prevOk[a],
                       gapBefore |-> (a \in gap),
                       sent |-> res.sent, calls |-> res.calls, raised |-> res.raised ]
          /\ roundLog' = Append(roundLog, [i |-> idx, ok |-> ok])
          /\ prevOk' = IF ok THEN [prevOk EXCEPT ![a] = Some(get_balance(r).value)] ELSE prevOk
          /\ gap' = IF ok THEN gap \ {a} ELSE gap \cup {a}
          /\ pc' = IF res.raised THEN "crashed"
                   ELSE IF idx = Len(addresses_config) THEN "sleep" ELSE "loop"
          /\ idx' = idx + 1
  /\ UNCHANGED << variant, args, cfgfile, config, apobj, testCalls >>

\* mutant: main returns after the first round
SleepReturns ==
  /\ pc = "sleep"
  /\ pc' = "exited"
  /\ UNCHANGED << variant, args, cfgfile, config, apobj, last_balances, idx, last,
                  roundLog, testCalls, prevOk, gap >>

\* time.sleep(interval) returns and the while loop starts the next round
Sleep ==
  /\ pc = "sleep"
  /\ pc' = "loop"
  /\ idx' = 1
  /\ roundLog' = << >>
  /\ UNCHANGED << variant, args, cfgfile, config, apobj, last_balances, last, testCalls,
                  prevOk, gap >>

Next ==
  \/ LoadConfig
  \/ SetupApprise
  \/ InitializeBalances
  \/ SendTestNotification
  \/ ValidateConfig
  \/ MonitorAddress
  \/ Sleep

Spec == Init /\ [][Next]_vars

\* "every fetch call returns and every sleep ends": a sequential program keeps
\* taking its next step
FairSpec == Spec /\ WF_vars(Next)

(* --------------------------- reading `last` --------------------------- *)
LastOk == last.called /\ last.kind = "ok"
LastFailed == last.called /\ last.kind # "ok"
\* the value the last call fetched
LastBalance == last.balance
\* the titles the last call sent, in order
LastTitles == [ k \in DOMAIN last.sent |-> last.sent[k].title ]
\* every message of the last call names the address the call was for
LastAboutItsAddress == \A k \in DOMAIN last.sent : last.sent[k].address = last.address
\* a notify call of the last call returned False
LastDeliveryFailed == \E k \in DOMAIN last.calls : ~ last.calls[k].result
InLoop == pc \in {"loop", "sleep"}
\* the call for descriptor i has just returned
JustFetched(i) == last.called /\ last.i = i /\ Len(roundLog) = i /\ InLoop

(* ------------------------------- claims ------------------------------- *)

\* C1: the first successful fetch of an address (no successful fetch of it
\* before) sends nothing and hands nothing to Apprise, whatever the value and
\* whatever failures came before; it records the fetched balance.
BaselineRule ==
  (LastOk /\ last.prev = None) =>
     /\ last.sent = << >>
     /\ last.calls = << >>
     /\ last_balances[last.address] = Some(LastBalance)

\* C1 witness: a non-zero first success of an address, after a failed fetch of it
BaselineWitness ==
  /\ LastOk /\ last.prev = None
  /\ last.gapBefore
  /\ LastBalance > 0
  /\ apobj # << >>

\* C2: a successful fetch `new` that follows a successful fetch `old` of the
\* same address sends exactly one "funds received" when new > old, exactly one
\* "balance decreased" when new < old, and nothing when new = old.
SuccessivePairs ==
  (LastOk /\ last.prev # None) =>
     /\ LastBalance > Val(last.prev) => LastTitles = << FundsReceived >>
     /\ LastBalance < Val(last.prev) => LastTitles = << BalanceDecreased >>
     /\ LastBalance = Val(last.prev) => LastTitles = << >>
     /\ LastAboutItsAddress
     /\ Len(last.calls) = IF apobj = << >> THEN 0 ELSE Len(last.sent)

\* C2 witness: a decrease right after an increase was seen for the same address
SuccessivePairsWitness ==
  /\ LastOk /\ last.prev # None
  /\ LastBalance < Val(last.prev)
  /\ LastTitles = << BalanceDecreased >>
  /\ Len(last.calls) = 1

\* C3: after a call whose fetch succeeded, the stored balance of the address
\* is the value just fetched (baseline, changed or unchanged; sent or not;
\* delivered or not).
StoredEqualsFetched ==
  LastOk => last_balances[last.address] = Some(LastBalance)

\* C3 witness: a changed balance whose notification was not delivered
StoredEqualsFetchedWitness ==
  /\ LastOk
  /\ last.before # None /\ Val(last.before) # LastBalance
  /\ LastDeliveryFailed

\* C4: after a call whose fetch failed, the stored balance of the address
\* (None included) is what it was before the call, whether or not an error
\* message was sent.
FailedFetchUntouched ==
  LastFailed => last_balances[last.address] = last.before

\* C4 witness: a failed fetch of an observed address, with its error message
\* handed to Apprise
FailedFetchWitness ==
  /\ LastFailed
  /\ last.before # None
  /\ last.calls # << >>

\* C4 witness of the unobserved case
FailedFetchUnobservedWitness ==
  /\ LastFailed
  /\ last.before = None
  /\ last.sent = << >>

\* C5 as claimed: on a fetch failure exactly one "Monitor Error" message about
\* the address is sent if notify_errors is true, and if it is false none is:
\* nothing is handed to Apprise.
ErrorNotificationFollowsSetting ==
  LastFailed =>
     IF notify_errors
     THEN LastTitles = << MonitorError >> /\ LastAboutItsAddress
     ELSE last.calls = << >>

\* C5 in monitor.py alone, where it holds: _send_notification is not even
\* called when notify_errors is false
ErrorNotificationFollowsSettingInMonitor ==
  variant = "monitor" =>
     /\ ErrorNotificationFollowsSetting
     /\ (LastFailed /\ ~ notify_errors) => last.sent = << >>

\* C6: a failed fetch does not abort the round.  While the loop runs no call
\* has let an exception out, the descriptors processed in the round are the
\* first ones in configured order, the next one is the one about to be fetched,
\* and at the sleep all of them have been processed; a descriptor processed
\* after a failure of another address is classified on its own history alone.
FetchErrorsIsolated ==
  last.called =>
     /\ ~ last.raised
     /\ InLoop
     /\ \A k \in DOMAIN roundLog : roundLog[k].i = k
     /\ Len(roundLog) <= Len(addresses_config)
     /\ pc = "loop" => idx = Len(roundLog) + 1
     /\ pc = "sleep" => Len(roundLog) = Len(addresses_config)
     /\ (/\ LastOk
         /\ \E k \in 1..(Len(roundLog) - 1) :
              /\ ~ roundLog[k].ok
              /\ addresses_config[k].address # last.address)
        => /\ last_balances[last.address] = Some(LastBalance)
           /\ LastTitles =
                IF last.prev = None THEN << >>
                ELSE IF LastBalance > Val(last.prev) THEN << FundsReceived >>
                ELSE IF LastBalance < Val(last.prev) THEN << BalanceDecreased >>
                ELSE << >>

\* C6 witness: a round whose first fetch failed and whose second, of another
\* address, was classified as a change
FetchErrorsIsolatedWitness ==
  /\ pc = "sleep"
  /\ Len(roundLog) = 2
  /\ ~ roundLog[1].ok /\ roundLog[2].ok
  /\ addresses_config[1].address # addresses_config[2].address
  /\ last.i = 2 /\ last.sent # << >>

\* C7: an address that has had a successful fetch never reads None again.
NeverRevertsToUnobserved ==
  \A a \in DOMAIN last_balances : prevOk[a] # None => last_balances[a] # None

\* C7 witness: an observed address after a failed fetch of it whose error
\* message was not delivered
NeverRevertsWitness ==
  /\ LastFailed
  /\ prevOk[last.address] # None
  /\ LastDeliveryFailed

\* the configuration loads, --test-notifications is absent and an address is
\* configured
EntryConditions ==
  /\ cfgfile.kind = "dict"
  /\ ~ args.test_notifications
  /\ cfgfile.dict.addresses # << >>

\* C8 as claimed: the loop is entered only under the three conditions, and in
\* every other case the process ends cleanly (no uncaught exception) without a
\* balance fetch or a change/error notification.
LoopEntryGuard ==
  /\ (InLoop \/ last.called) => EntryConditions
  /\ ~ EntryConditions => (pc # "crashed" /\ ~ last.called)

\* C8, the part the code keeps: no fetch and no loop without the three conditions
LoopEntryOnlyIf ==
  (InLoop \/ last.called) => EntryConditions

\* C9: once the loop has started, every configured descriptor is fetched again
\* and again, whatever fails.
LoopRunsForever ==
  \A i \in 1..MaxAddrs :
     [](InLoop /\ i \in DOMAIN addresses_config => <>JustFetched(i))

\* C9 witness: the loop in a later round, after a failed fetch whose error
\* message was not delivered
LoopRunsForeverWitness ==
  /\ pc = "loop" /\ idx = 1
  /\ LastFailed /\ LastDeliveryFailed

\* C10: when a notify call returns False, monitor_address still returns
\* normally having sent one message, the state holds the fetched balance in the
\* change case, and the round goes on with the next descriptor (or the sleep).
DeliveryFailureContained ==
  (last.called /\ LastDeliveryFailed) =>
     /\ ~ last.raised
     /\ Len(last.sent) = 1 /\ Len(last.calls) = 1
     /\ LastOk => last_balances[last.address] = Some(LastBalance)
     /\ LastFailed => last_balances[last.address] = last.before
     /\ InLoop
     /\ roundLog # << >> => (/\ roundLog[Len(roundLog)].i = last.i
                            /\ pc = (IF last.i = Len(addresses_config) THEN "sleep" ELSE "loop")
                            /\ idx = last.i + 1)

\* C10 witness: an undelivered change notification with another descriptor
\* still to process in the round
DeliveryFailureWitness ==
  /\ LastOk /\ LastDeliveryFailed
  /\ last.sent # << >>
  /\ pc = "loop" /\ idx = 2 /\ last.i = 1

\* the titles a successful fetch of `new` sends when the last successful fetch
\* of the address gave `prev` (None: there was none)
ExpectedTitles(prev, new) ==
  IF prev = None THEN << >>
  ELSE IF new > Val(prev) THEN << FundsReceived >>
  ELSE IF new < Val(prev) THEN << BalanceDecreased >>
  ELSE << >>

\* the titles of a sequence of messages
TitlesOf(sent) == [ k \in DOMAIN sent |-> sent[k].title ]

\* C11: with no registered endpoint nothing is ever handed to Apprise and no
\* call raises, while a change is still detected (the send is made) and the
\* balance is stored; the next call leaves the same balance map and makes the
\* same sends as it would with an endpoint registered.
NoEndpointsNoOp ==
  (apobj = << >> /\ pc \notin {"start", "setup", "crashed"}) =>
     /\ testCalls = << >>
     /\ last.calls = << >>
     /\ ~ last.raised
     /\ LastOk => /\ last_balances[last.address] = Some(LastBalance)
                  /\ LastTitles = ExpectedTitles(last.prev, LastBalance)
     /\ (pc = "loop" /\ idx \in DOMAIN addresses_config) =>
          \A r \in Responses, d \in BOOLEAN :
             LET item == addresses_config[idx]
                 without == monitor_address(variant, item, last_balances, << >>,
                                            notify_errors, r, d)
                 with == monitor_address(variant, item, last_balances, << "good" >>,
                                         notify_errors, r, d)
             IN /\ without.lb = with.lb
                /\ without.sent = with.sent
                /\ without.calls = << >>
                /\ ~ without.raised

\* C11 witness: a change detected and stored with no endpoint registered,
\* although the configuration lists an endpoint string
NoEndpointsWitness ==
  /\ apobj = << >> /\ apprise_urls # << >>
  /\ LastOk /\ last.sent # << >>
  /\ last_balances[last.address] = Some(LastBalance)

\* C12: with --test-notifications the loop is never entered and no balance is
\* fetched; once the configuration has loaded, the process exits having made
\* exactly one test notify call if an endpoint is registered and none if not,
\* whether or not an address is configured.  Without the flag no test message
\* is sent.
TestNotificationsOnly ==
  /\ args.test_notifications => (~ InLoop /\ ~ last.called)
  /\ (args.test_notifications /\ pc = "exited" /\ config.kind = "dict") =>
        Len(testCalls) = IF apobj # << >> THEN 1 ELSE 0
  /\ testCalls # << >> => (args.test_notifications /\ pc = "exited")

\* C12 witness: the test message sent and the process ended with no address
\* configured
TestNotificationsWitness ==
  /\ args.test_notifications /\ pc = "exited"
  /\ addresses_config = << >> /\ config.kind = "dict"
  /\ Len(testCalls) = 1

\* C12 witness of the case without endpoint
TestNotificationsNoEndpointWitness ==
  /\ args.test_notifications /\ pc = "exited" /\ config.kind = "dict"
  /\ apobj = << >> /\ testCalls = << >>

\* Apprise accepts the endpoint string
Succeeds(url) == url \notin {"invalid", "unsupported"}

\* C13: after the setup the registered endpoints are exactly the configured
\* strings whose registration succeeded, in configured order, wherever the
\* failing ones stand; a failing string never ends the program.
RegisteredAreTheSucceeding ==
  (config.kind = "dict" /\ pc \notin {"start", "setup"}) =>
     /\ apobj = SelectSeq(apprise_urls, Succeeds)
     /\ ~ last.called => pc # "crashed"

\* C13 witness: a failing string between two succeeding ones, both registered
RegisteredWitness ==
  /\ pc \notin {"start", "setup"}
  /\ apprise_urls = << "good", "unsupported", "good" >>
  /\ apobj = << "good", "good" >>

\* C13 witness: a failing string first
RegisteredAfterFailingWitness ==
  /\ pc \notin {"start", "setup"}
  /\ apprise_urls = << "invalid", "good" >>
  /\ apobj = << "good" >>

\* a step that makes one monitor_address call
FetchStep == Len(roundLog') = Len(roundLog) + 1

\* the steps of a round: a call is for the descriptor after the ones already
\* processed in the round; the sleep is reached by the call for the last
\* descriptor and by nothing else; the step after the sleep starts the next
\* round at the first descriptor without fetching; a round starts in no other
\* way once the loop runs
RoundStep ==
  /\ FetchStep =>
        /\ pc = "loop" /\ idx = Len(roundLog) + 1
        /\ roundLog'[Len(roundLog')].i = idx
        /\ pc' # "crashed" => idx' = idx + 1
  /\ (pc' = "sleep" /\ pc # "sleep") =>
        /\ FetchStep
        /\ Len(roundLog') = Len(addresses_config)
  /\ pc = "sleep" =>
        /\ pc' = "loop" /\ idx' = 1 /\ roundLog' = << >>
        /\ last' = last /\ last_balances' = last_balances
  /\ (roundLog # << >> /\ roundLog' = << >>) => pc = "sleep"
  /\ (InLoop /\ ~ FetchStep) => pc = "sleep"

\* C14: in a round every descriptor is fetched exactly once, one at a time in
\* configured order, and the sleep comes once, after the last descriptor and
\* before the first fetch of the next round.
RoundStructure ==
  /\ [](/\ \A k \in DOMAIN roundLog : roundLog[k].i = k
        /\ Len(roundLog) <= Len(addresses_config)
        /\ pc = "sleep" => Len(roundLog) = Len(addresses_config)
        /\ (pc = "loop" /\ last.called) => idx \in DOMAIN addresses_config)
  /\ [][RoundStep]_vars

\* C14 witness: the second round of a two-descriptor list about to fetch its
\* second descriptor
RoundStructureWitness ==
  /\ pc = "loop" /\ idx = 2 /\ Len(addresses_config) = 2
  /\ Len(roundLog) = 1
  /\ last.called /\ last.i = 1 /\ last.gapBefore

\* the successful responses that carry balance b
OkResponses(b) == { r \in Responses : r.kind = "ok" /\ get_balance(r).value = b }

\* C15: a detected transition is handed to Apprise at most once; a change
\* notification whose delivery failed is not sent again: the balance is
\* recorded all the same, and a following successful fetch of the same balance
\* sends nothing.
AtMostOnceNoRetry ==
  /\ [](/\ LastOk => /\ Len(last.sent) <= 1
                     /\ Len(last.calls) <= Len(last.sent)
                     /\ last_balances[last.address] = Some(LastBalance)
        /\ (/\ LastOk /\ LastDeliveryFailed
            /\ pc = "loop" /\ idx \in DOMAIN addresses_config
            /\ addresses_config[idx].address = last.address) =>
              \A r \in OkResponses(LastBalance), d \in BOOLEAN :
                 LET res == monitor_address(variant, addresses_config[idx],
                                            last_balances, apobj, notify_errors, r, d)
                 IN res.sent = << >> /\ res.calls = << >>)
  /\ [][(/\ FetchStep /\ LastOk /\ LastDeliveryFailed
         /\ last'.address = last.address
         /\ last'.kind = "ok" /\ last'.balance = last.balance) =>
           (last'.sent = << >> /\ last'.calls = << >>)]_vars

\* C15 witness: the round after a change notification of the only address
\* failed to be delivered, the address being fetched again with the same balance
AtMostOnceWitness ==
  /\ pc = "sleep" /\ Len(addresses_config) = 1
  /\ LastOk /\ last.sent = << >> /\ last.gapBefore = FALSE
  /\ last.prev = Some(LastBalance) /\ last.before = Some(LastBalance)

\* C15 witness: a change notification whose delivery failed has just been made
AtMostOnceFailedDeliveryWitness ==
  /\ pc = "loop" /\ idx = 1 /\ Len(addresses_config) = 1
  /\ LastOk /\ LastDeliveryFailed /\ LastTitles = << FundsReceived >>

\* the last call was a successful fetch that came after one or more failed
\* fetches of its address
LastRecovered == LastOk /\ last.gapBefore

\* C16: a successful fetch that follows failed fetches of its address is
\* classified against the last successfully fetched value: a change made during
\* the outage is notified once, an unchanged balance is not notified; a
\* successful fetch sends nothing only when there was no earlier successful
\* fetch or when the balance equals the earlier one.
ClassifiedAcrossGap ==
  /\ LastRecovered =>
        /\ last.before = last.prev
        /\ (last.prev # None /\ LastBalance # Val(last.prev)) =>
              /\ Len(last.sent) = 1
              /\ LastTitles = ExpectedTitles(last.prev, LastBalance)
              /\ LastAboutItsAddress
        /\ (last.prev # None /\ LastBalance = Val(last.prev)) => last.sent = << >>
  /\ LastOk =>
        (last.sent = << >> <=> (last.prev = None \/ LastBalance = Val(last.prev)))

\* C16 witness: the balance changed while the fetches of the address failed
ClassifiedAcrossGapWitness ==
  /\ LastRecovered /\ last.prev # None /\ LastBalance # Val(last.prev)
  /\ Len(last.sent) = 1

\* C16 witness: the balance is the same after the failed fetches
UnchangedAcrossGapWitness ==
  /\ LastRecovered /\ last.prev = Some(LastBalance) /\ last.sent = << >>

\* the descriptor about to be processed names the address of the descriptor
\* processed just before it in the same round
NextIsDuplicate ==
  /\ pc = "loop" /\ idx \in DOMAIN addresses_config
  /\ Len(roundLog) >= 1 /\ last.called
  /\ addresses_config[idx].address = last.address

\* C17: descriptors that name one address share one slot of the balance map.
\* The fetch for the second descriptor in a round is classified against what
\* the first descriptor's fetch recorded in that round, so a balance that
\* differs between the two fetches is notified as a change, and only the first
\* successful fetch over all the duplicates is a baseline.
DuplicatesShareSlot ==
  /\ [](/\ InLoop =>
             DOMAIN last_balances = { addresses_config[k].address : k \in DOMAIN addresses_config }
        /\ LastOk => (last.before = None <=> last.prev = None)
        /\ (NextIsDuplicate /\ LastOk) =>
             /\ last_balances[last.address] = Some(LastBalance)
             /\ \A r \in Responses, d \in BOOLEAN :
                  r.kind = "ok" =>
                    TitlesOf(monitor_address(variant, addresses_config[idx], last_balances,
                                             apobj, notify_errors, r, d).sent)
                      = ExpectedTitles(Some(LastBalance), get_balance(r).value))
  /\ [][(FetchStep /\ NextIsDuplicate) =>
          /\ last'.before = IF LastOk THEN Some(LastBalance) ELSE last.before
          /\ (LastOk /\ last'.kind = "ok") =>
                /\ last'.before # None
                /\ TitlesOf(last'.sent) = ExpectedTitles(Some(LastBalance), last'.balance)]_vars

\* C17 witness: the two descriptors of one address fetched different balances in
\* one round, and the second fetch sent a change notification
DuplicatesShareSlotWitness ==
  /\ Len(addresses_config) = 2
  /\ addresses_config[1].address = addresses_config[2].address
  /\ JustFetched(2) /\ roundLog[1].ok /\ LastOk
  /\ last.before # None /\ Val(last.before) # LastBalance
  /\ Len(last.sent) = 1
  /\ Cardinality(DOMAIN last_balances) = 1

\* C17 witness: the first descriptor's fetch failed in the first round, the
\* second descriptor's fetch is the baseline of the address
DuplicateBaselineWitness ==
  /\ Len(addresses_config) = 2
  /\ addresses_config[1].address = addresses_config[2].address
  /\ JustFetched(2) /\ ~ roundLog[1].ok /\ LastOk
  /\ last.before = None /\ last.sent = << >>

\* the addresses the configuration names
ConfiguredAddresses == { addresses_config[k].address : k \in DOMAIN addresses_config }

\* the balance map has been built: by __init__ in monitor.py, right before the
\* loop in script.py
MapExists ==
  \/ InLoop
  \/ last.called
  \/ variant = "monitor" /\ config.kind = "dict" /\ pc \in {"main", "exited"}

\* C18: monitor_address for address A changes at most A's slot of the balance
\* map; every other slot keeps its value; the keys of the map are the
\* configured addresses in every state in which the map exists, and every slot
\* is unobserved until the first round.
FrameOfMonitorAddress ==
  /\ [](MapExists =>
          /\ DOMAIN last_balances = ConfiguredAddresses
          /\ ~ last.called => \A a \in DOMAIN last_balances : last_balances[a] = None)
  /\ [][/\ FetchStep =>
            /\ DOMAIN last_balances' = DOMAIN last_balances
            /\ \A b \in DOMAIN last_balances \ {addresses_config[idx].address} :
                  last_balances'[b] = last_balances[b]
        /\ (MapExists /\ ~ FetchStep) => last_balances' = last_balances]_vars

\* C18 witness: with two addresses observed, a fetch has just changed the slot
\* of one of them
FrameWitness ==
  /\ Cardinality(ConfiguredAddresses) = 2
  /\ LastOk /\ last.before # None /\ last.before # Some(LastBalance)
  /\ last_balances[last.address] = Some(LastBalance)
  /\ \E b \in DOMAIN last_balances \ {last.address} :
        last_balances[b] # None /\ last_balances[b] # Some(LastBalance)

\* C18 witness: the map right after it was built
FrameInitialWitness ==
  /\ pc = "loop" /\ ~ last.called
  /\ Cardinality(DOMAIN last_balances) = 2

\* what a send is about: the kind of notification and the address
Kinds(sent) == [ k \in DOMAIN sent |-> [title |-> sent[k].title, address |-> sent[k].address] ]

\* the notify calls made: kind, address and the result Apprise returned
Delivered(calls) ==
  [ k \in DOMAIN calls |-> [title |-> calls[k].note.title,
                            address |-> calls[k].note.address,
                            result |-> calls[k].result] ]

\* the other program
Other(v) == IF v = "monitor" THEN "script" ELSE "monitor"

\* monitor_address of program v on the current state, monitor.py running with
\* notify_errors true
AsRunBy(v, r, d) ==
  monitor_address(v, addresses_config[idx], last_balances, apobj,
                  IF v = "monitor" THEN TRUE ELSE notify_errors, r, d)

\* C19: on the same address list and endpoints, with notify_errors true in
\* monitor.py, the two programs start the loop with the same balance map and,
\* given the same fetch result and delivery outcome, make the same step: same
\* balance map afterwards, same kinds of notification for the same addresses,
\* same continuation of the loop.
VariantsAgree ==
  /\ [](/\ (pc = "loop" /\ ~ last.called) =>
              /\ idx = 1
              /\ last_balances = initialize_balances(addresses_config)
              /\ apobj = setup_apprise(apprise_urls)
        /\ (pc = "loop" /\ idx \in DOMAIN addresses_config) =>
              \A r \in Responses, d \in BOOLEAN :
                 LET m == AsRunBy("monitor", r, d)
                     s == AsRunBy("script", r, d)
                 IN /\ m.lb = s.lb
                    /\ Kinds(m.sent) = Kinds(s.sent)
                    /\ Delivered(m.calls) = Delivered(s.calls)
                    /\ m.raised = s.raised)
  /\ [][(FetchStep /\ (variant = "monitor" => notify_errors)) =>
          \E r \in Responses, d \in BOOLEAN :
             LET o == AsRunBy(Other(variant), r, d)
             IN /\ r.kind = last'.kind
                /\ get_balance(r).value = last'.balance
                /\ o.lb = last_balances'
                /\ Kinds(o.sent) = Kinds(last'.sent)
                /\ Delivered(o.calls) = Delivered(last'.calls)
                /\ o.raised = last'.raised]_vars

\* C19 witness: script.py, whose configuration says notify_errors false, has
\* sent an error notification for a failed fetch, as monitor.py does with
\* notify_errors true
VariantsAgreeWitness ==
  /\ variant = "script" /\ ~ notify_errors /\ apobj # << >>
  /\ LastFailed /\ LastTitles = << MonitorError >> /\ Len(last.calls) = 1
  /\ last.before # None /\ last_balances[last.address] = last.before

\* C19 witness: monitor.py with notify_errors true has notified a change
VariantsAgreeMonitorWitness ==
  /\ variant = "monitor" /\ notify_errors /\ apobj # << >>
  /\ LastOk /\ LastTitles = << BalanceDecreased >> /\ Len(last.calls) = 1

====
